---- MODULE Spec2Model ----
(***************************************************************************)
(* Model of ssb_jordbruk_fagfunksjoner/produksjonstilskudd.py: the         *)
(* self-registering Produksjonskode entities, the shared class-level       *)
(* registry, and the Produksjonstilskudd catalog with its queries.         *)
(***************************************************************************)
EXTENDS FiniteSets, Integers, Sequences, TLC

(***************************************************************************)
(* Python values.  A value carries its dynamic type, so that isinstance,   *)
(* truthiness, == and `in` can be modelled as Python evaluates them.  A    *)
(* str is a sequence of characters.                                        *)
(***************************************************************************)
PyNone == [type |-> "NoneType"]
PyBool(b) == [type |-> "bool", b |-> b]
PyInt(n) == [type |-> "int", n |-> n]
PyStr(s) == [type |-> "str", chars |-> s]
PyList(xs) == [type |-> "list", items |-> xs]
PyTuple(xs) == [type |-> "tuple", items |-> xs]
PyType(v) == [type |-> "type", name |-> v.type]

\* bool(v): the truth value Python gives v in `x if v else y`.
Truthy(v) ==
  CASE v.type = "NoneType" -> FALSE
    [] v.type = "bool" -> v.b
    [] v.type = "int" -> v.n # 0
    [] v.type = "str" -> Len(v.chars) > 0
    [] v.type \in {"list", "tuple"} -> Len(v.items) > 0

\* isinstance(v, t) for the exact builtin types used by the module.
isinstance(v, t) == v.type = t

\* hash(v) succeeds: lists are unhashable, so is a tuple holding a list.
RECURSIVE Hashable(_)
Hashable(v) ==
  CASE v.type = "list" -> FALSE
    [] v.type = "tuple" -> \A i \in DOMAIN v.items : Hashable(v.items[i])
    [] OTHER -> TRUE

\* Unicode code points of the characters the model uses.
CodePoint ==
  ("0" :> 48) @@ ("1" :> 49) @@ ("2" :> 50) @@ ("3" :> 51) @@ ("4" :> 52) @@
  ("B" :> 66) @@ ("_" :> 95) @@ ("a" :> 97) @@ ("b" :> 98) @@ ("k" :> 107) @@
  ("p" :> 112) @@ ("U+0663" :> 1635)

\* Characters matched by \d in a str pattern: the Unicode decimal digits
\* (category Nd), here the ASCII digits and ARABIC-INDIC DIGIT THREE.
UnicodeDecimalDigits == {"0", "1", "2", "3", "4", "U+0663"}

\* re.match in place of re.fullmatch: only the first three characters are
\* matched against the pattern.
match_d3(s) == Len(s) >= 3 /\ \A i \in 1..3 : s[i] \in UnicodeDecimalDigits

\* re.fullmatch(r"\d{3}", s) is not None, for a str s.
fullmatch_d3(s) == Len(s) = 3 /\ \A i \in 1..3 : s[i] \in UnicodeDecimalDigits

\* a < b for two str values: lexicographic by code point.
RECURSIVE StrLess(_, _)
StrLess(a, b) ==
  IF Len(a) = 0 THEN Len(b) > 0
  ELSE IF Len(b) = 0 THEN FALSE
  ELSE IF a[1] # b[1] THEN CodePoint[a[1]] < CodePoint[b[1]]
  ELSE StrLess(Tail(a), Tail(b))

\* sorted with the comparison reversed: descending order.
RECURSIVE sorted_descending(_)
sorted_descending(S) ==
  IF S = {} THEN <<>>
  ELSE LET m == CHOOSE x \in S : \A y \in S \ {x} : StrLess(y.chars, x.chars)
       IN <<m>> \o sorted_descending(S \ {m})

\* sorted(S) for a set S of str values.
RECURSIVE sorted(_)
sorted(S) ==
  IF S = {} THEN <<>>
  ELSE LET m == CHOOSE x \in S : \A y \in S \ {x} : StrLess(x.chars, y.chars)
       IN <<m>> \o sorted(S \ {m})

\* x in container: membership by == for a list, substring test for a str.
RECURSIVE IsSubstring(_, _)
IsSubstring(a, b) ==
  IF Len(a) > Len(b) THEN FALSE
  ELSE IF SubSeq(b, 1, Len(a)) = a THEN TRUE
  ELSE IF Len(b) = 0 THEN FALSE
  ELSE IsSubstring(a, Tail(b))

PyIn(x, container) ==
  CASE container.type = "list" ->
         \E j \in DOMAIN container.items : container.items[j] = x
    [] container.type = "str" ->
         x.type = "str" /\ IsSubstring(x.chars, container.chars)

(***************************************************************************)
(* Exceptions.  An outcome is either a returned value or a raised          *)
(* exception carrying its class, the fixed part of its message and the     *)
(* value the message names.                                                *)
(***************************************************************************)
NoError == [exc |-> "none", msg |-> "", value |-> PyNone]
Raise(exc, msg, value) == [exc |-> exc, msg |-> msg, value |-> value]

antall == PyStr(<<"a", "n", "t", "a", "l", "l">>)
dekar == PyStr(<<"d", "e", "k", "a", "r">>)
stykk == PyStr(<<"s", "t", "y", "k", "k">>)
kilo == PyStr(<<"k", "i", "l", "o">>)
liter == PyStr(<<"l", "i", "t", "e", "r">>)

VALID_MEASUREMENT_UNITS == {antall, dekar, stykk, kilo}

\* Bound on the number of entries of the registry.
MaxReg == 2

VARIABLES
  registry,   \* Produksjonskode._registry: the list object shared by the class
  pt,         \* the catalog the client holds (NoCatalog before the first one)
  last        \* the last call: operation, arguments, outcome

vars == <<registry, pt, last>>

NoCatalog == [built |-> FALSE]
RegistryRef == "Produksjonskode._registry"

\* The list object a reference denotes.  The registry is the only list
\* object a catalog ever refers to.
Deref(ref, reg) == CASE ref = RegistryRef -> reg

(***************************************************************************)
(* class Produksjonskode                                                   *)
(***************************************************************************)

\* is_valid with the measurement unit checked before the other fields.
is_valid_unit_first(self) ==
  IF Hashable(self.measured_in) /\ self.measured_in \notin VALID_MEASUREMENT_UNITS
  THEN Raise("ValueError", "Invalid measurement unit", self.measured_in)
  ELSE IF ~isinstance(self.code, "str")
  THEN Raise("TypeError", "expected string or bytes-like object", PyType(self.code))
  ELSE IF ~fullmatch_d3(self.code.chars)
  THEN Raise("ValueError", "Must be exactly 3 digits", self.code)
  ELSE IF ~isinstance(self.groups, "list")
  THEN Raise("TypeError", "groups must be a list", PyType(self.groups))
  ELSE LET invalid_values ==
             SelectSeq(self.groups.items, LAMBDA value : ~isinstance(value, "str"))
       IN IF Len(invalid_values) > 0
          THEN Raise("ValueError", "All values in groups must be strings",
                     PyList(invalid_values))
          ELSE IF ~Hashable(self.measured_in)
          THEN Raise("TypeError", "unhashable type", PyType(self.measured_in))
          ELSE NoError

\* Produksjonskode.is_valid: the exception it raises, NoError when it
\* returns.  re.fullmatch itself raises TypeError for a code that is not a
\* str, and the set membership test raises TypeError for an unhashable
\* measured_in.
is_valid(self) ==
  IF ~isinstance(self.code, "str")
  THEN Raise("TypeError", "expected string or bytes-like object", PyType(self.code))
  ELSE IF ~fullmatch_d3(self.code.chars)
  THEN Raise("ValueError", "Must be exactly 3 digits", self.code)
  ELSE IF ~isinstance(self.groups, "list")
  THEN Raise("TypeError", "groups must be a list", PyType(self.groups))
  ELSE LET invalid_values ==
             SelectSeq(self.groups.items, LAMBDA value : ~isinstance(value, "str"))
       IN IF Len(invalid_values) > 0
          THEN Raise("ValueError", "All values in groups must be strings",
                     PyList(invalid_values))
          ELSE IF ~Hashable(self.measured_in)
          THEN Raise("TypeError", "unhashable type", PyType(self.measured_in))
          ELSE IF self.measured_in \notin VALID_MEASUREMENT_UNITS
          THEN Raise("ValueError", "Invalid measurement unit", self.measured_in)
          ELSE NoError

\* __init__ registering the object before it validates it.
Produksjonskode_init_register_first(reg, code, groups, measured_in) ==
  LET self == [code |-> code,
               groups |-> IF Truthy(groups) THEN groups ELSE PyList(<<>>),
               measured_in |-> measured_in]
  IN [self |-> self,
      raised |-> is_valid(self),
      registry |-> Append(reg, self)]

\* __init__ inserting the object at the front of the registry.
Produksjonskode_init_insert_front(reg, code, groups, measured_in) ==
  LET self == [code |-> code,
               groups |-> IF Truthy(groups) THEN groups ELSE PyList(<<>>),
               measured_in |-> measured_in]
      raised == is_valid(self)
  IN [self |-> self,
      raised |-> raised,
      registry |-> IF raised = NoError THEN <<self>> \o reg ELSE reg]

\* Produksjonskode.__init__: the fields it stores (those the catalog reads),
\* the exception it raises and the registry it leaves behind.
Produksjonskode_init(reg, code, groups, measured_in) ==
  LET self == [code |-> code,
               groups |-> IF Truthy(groups) THEN groups ELSE PyList(<<>>),
               measured_in |-> measured_in]
      raised == is_valid(self)
  IN [self |-> self,
      raised |-> raised,
      registry |-> IF raised = NoError THEN Append(reg, self) ELSE reg]

(***************************************************************************)
(* class Produksjonstilskudd                                               *)
(***************************************************************************)

\* The set of elements of a sequence.
Range(s) == {s[i] : i \in DOMAIN s}

\* Produksjonstilskudd.__init__: codes is bound to the registry list object
\* itself; categories is a new sorted list of the distinct group tags.
Produksjonstilskudd_init(reg) ==
  LET categories ==
        UNION {Range(reg[i].groups.items) : i \in DOMAIN reg}
  IN [built |-> TRUE,
      codes |-> RegistryRef,
      categories |-> PyList(sorted(categories))]

\* _add_prefix with the underscore of the literal dropped.
add_prefix_no_underscore(list_containing_codes) ==
  [i \in DOMAIN list_containing_codes |->
     PyStr(<<"p", "k">> \o list_containing_codes[i].chars)]

\* Produksjonstilskudd._add_prefix
add_prefix(list_containing_codes) ==
  [i \in DOMAIN list_containing_codes |->
     PyStr(<<"p", "k", "_">> \o list_containing_codes[i].chars)]

Returned(value) == [raised |-> NoError, returned |-> value]
Raised(exc, msg, value) == [raised |-> Raise(exc, msg, value), returned |-> PyNone]

\* list(categories) in place of [categories]: the str split into its
\* characters.
str_to_chars(categories) ==
  IF isinstance(categories, "str")
  THEN PyList([i \in DOMAIN categories.chars |-> PyStr(<<categories.chars[i]>>)])
  ELSE categories

\* get_codes, the conversion of a str selector into a one-element list.
str_to_list(categories) ==
  IF isinstance(categories, "str") THEN PyList(<<categories>>) ELSE categories

\* all(...) in place of any(...).
all_group_in(code, categories) ==
  \A g \in DOMAIN code.groups.items : PyIn(code.groups.items[g], categories)

\* get_codes, the test of one code: any(group in categories for group in
\* code.groups).
any_group_in(code, categories) ==
  \E g \in DOMAIN code.groups.items : PyIn(code.groups.items[g], categories)

\* get_codes without the isinstance check of prefix: prefix is only tested
\* for truth.
get_codes_truthy_prefix(self, reg, categories, prefix) ==
  LET c1 == IF categories = PyNone THEN self.categories ELSE categories
      c2 == str_to_list(c1)
  IN IF ~isinstance(c2, "list")
     THEN Raised("TypeError", "expected type str or list", PyType(c2))
     ELSE LET relevant_codes ==
                SelectSeq(Deref(self.codes, reg),
                          LAMBDA code : any_group_in(code, c2))
              list_of_codes ==
                [i \in DOMAIN relevant_codes |-> relevant_codes[i].code]
          IN Returned(PyList(IF Truthy(prefix) THEN add_prefix(list_of_codes)
                             ELSE list_of_codes))

\* get_codes rejecting a selector name that is not one of self.categories.
get_codes_strict(self, reg, categories, prefix) ==
  IF ~isinstance(prefix, "bool")
  THEN Raised("TypeError", "prefix should be either True or False", prefix)
  ELSE LET c1 == IF categories = PyNone THEN self.categories ELSE categories
           c2 == str_to_list(c1)
       IN IF ~isinstance(c2, "list")
          THEN Raised("TypeError", "expected type str or list", PyType(c2))
          ELSE IF \E n \in DOMAIN c2.items : ~PyIn(c2.items[n], self.categories)
          THEN Raised("ValueError", "Unknown category", c2)
          ELSE LET relevant_codes ==
                     SelectSeq(Deref(self.codes, reg),
                               LAMBDA code : any_group_in(code, c2))
                   list_of_codes ==
                     [i \in DOMAIN relevant_codes |-> relevant_codes[i].code]
               IN Returned(PyList(IF prefix.b THEN add_prefix(list_of_codes)
                                  ELSE list_of_codes))

\* Produksjonstilskudd.get_codes
get_codes(self, reg, categories, prefix) ==
  IF ~isinstance(prefix, "bool")
  THEN Raised("TypeError", "prefix should be either True or False", prefix)
  ELSE LET c1 == IF categories = PyNone THEN self.categories ELSE categories
           c2 == str_to_list(c1)
       IN IF ~isinstance(c2, "list")
          THEN Raised("TypeError", "expected type str or list", PyType(c2))
          ELSE LET relevant_codes ==
                     SelectSeq(Deref(self.codes, reg),
                               LAMBDA code : any_group_in(code, c2))
                   list_of_codes ==
                     [i \in DOMAIN relevant_codes |-> relevant_codes[i].code]
               IN Returned(PyList(IF prefix.b THEN add_prefix(list_of_codes)
                                  ELSE list_of_codes))

\* get_codes_by_measurement comparing with != in place of ==.
get_codes_by_measurement_not_equal(self, reg, measurement, prefix) ==
  IF ~Hashable(measurement)
  THEN Raised("TypeError", "unhashable type", PyType(measurement))
  ELSE IF measurement \notin VALID_MEASUREMENT_UNITS
  THEN Raised("ValueError", "Invalid measurement unit", measurement)
  ELSE IF ~isinstance(prefix, "bool")
  THEN Raised("TypeError", "prefix should be either True or False", prefix)
  ELSE LET relevant_codes ==
             SelectSeq(Deref(self.codes, reg),
                       LAMBDA code : code.measured_in # measurement)
           list_of_codes ==
             [i \in DOMAIN relevant_codes |-> relevant_codes[i].code]
       IN Returned(PyList(IF prefix.b THEN add_prefix(list_of_codes)
                          ELSE list_of_codes))

\* Produksjonstilskudd.get_codes_by_measurement
get_codes_by_measurement(self, reg, measurement, prefix) ==
  IF ~Hashable(measurement)
  THEN Raised("TypeError", "unhashable type", PyType(measurement))
  ELSE IF measurement \notin VALID_MEASUREMENT_UNITS
  THEN Raised("ValueError", "Invalid measurement unit", measurement)
  ELSE IF ~isinstance(prefix, "bool")
  THEN Raised("TypeError", "prefix should be either True or False", prefix)
  ELSE LET relevant_codes ==
             SelectSeq(Deref(self.codes, reg),
                       LAMBDA code : code.measured_in = measurement)
           list_of_codes ==
             [i \in DOMAIN relevant_codes |-> relevant_codes[i].code]
       IN Returned(PyList(IF prefix.b THEN add_prefix(list_of_codes)
                          ELSE list_of_codes))

\* Produksjonstilskudd.__str__: the two numbers the summary renders.
summary(self, reg) ==
  Returned([type |-> "summary",
            codes |-> Len(Deref(self.codes, reg)),
            categories |-> Len(self.categories.items)])

(***************************************************************************)
(* Arguments the clients pass.                                             *)
(***************************************************************************)
tag_empty == PyStr(<<>>)
tag_a == PyStr(<<"a">>)
tag_B == PyStr(<<"B">>)
tag_b == PyStr(<<"b">>)

c001 == PyStr(<<"0", "0", "1">>)
c101 == PyStr(<<"1", "0", "1">>)
c003_arabic == PyStr(<<"0", "0", "U+0663">>)
c12 == PyStr(<<"1", "2">>)
c1234 == PyStr(<<"1", "2", "3", "4">>)
c12a == PyStr(<<"1", "2", "a">>)

CodeArgs == {c001, c101, c12a}
GroupsArgs == {PyList(<<>>), PyList(<<tag_empty, tag_a>>), PyStr(<<"a">>)}
UnitArgs == {kilo, antall, liter}

AllCodeArgs == {c001, c003_arabic, c12, c1234, c12a, PyInt(123)}
AllGroupsArgs ==
  {PyList(<<tag_a, tag_B>>), PyList(<<>>),
   PyStr(<<>>), PyNone, PyInt(0), PyTuple(<<>>),
   PyStr(<<"a">>), PyTuple(<<tag_a>>),
   PyList(<<PyInt(1)>>), PyList(<<tag_a, PyInt(1), PyNone>>)}
AllUnitArgs == {kilo, liter, PyList(<<>>)}

CategoriesArgs ==
  {PyNone, tag_a, tag_empty, tag_b,
   PyList(<<>>), PyList(<<tag_a>>), PyList(<<tag_empty>>),
   PyList(<<tag_a, tag_empty>>), PyList(<<tag_b, tag_a>>), PyList(<<tag_B>>),
   PyInt(123), PyTuple(<<tag_a>>)}
PrefixArgs == {PyBool(TRUE), PyBool(FALSE), PyStr(<<"y", "e", "s">>)}
MeasurementArgs == {kilo, antall, dekar, stykk, liter, PyList(<<>>)}

(***************************************************************************)
(* The state machine: one action per call a client makes.                  *)
(***************************************************************************)
NoCall == [op |-> "none", args |-> <<>>, raised |-> NoError, returned |-> PyNone]

Init ==
  /\ registry = <<>>
  /\ pt = NoCatalog
  /\ last = NoCall

\* Produksjonskode(code=..., groups=..., measured_in=...)
NewProduksjonskode(code, groups, measured_in) ==
  LET r == Produksjonskode_init(registry, code, groups, measured_in)
  IN /\ Len(r.registry) <= MaxReg
     /\ registry' = r.registry
     /\ last' = [op |-> "Produksjonskode",
                 args |-> <<code, groups, measured_in>>,
                 raised |-> r.raised,
                 returned |-> IF r.raised = NoError THEN r.self ELSE PyNone]
     /\ UNCHANGED pt

\* pt = Produksjonstilskudd()
NewProduksjonstilskudd ==
  /\ pt' = Produksjonstilskudd_init(registry)
  /\ last' = [op |-> "Produksjonstilskudd", args |-> <<>>,
              raised |-> NoError, returned |-> pt']
  /\ UNCHANGED registry

\* get_codes storing the selector it was given as the catalog's categories
\* (self.categories = ... in place of the local categories = ...).
GetCodes_stores_categories(categories, prefix) ==
  /\ pt.built
  /\ LET r == get_codes(pt, registry, categories, prefix)
     IN /\ last' = [op |-> "get_codes", args |-> <<categories, prefix>>,
                    raised |-> r.raised, returned |-> r.returned]
        /\ pt' = IF r.raised = NoError /\ categories # PyNone
                 THEN [pt EXCEPT !.categories = str_to_list(categories)]
                 ELSE pt
  /\ UNCHANGED registry

\* pt.get_codes(categories, prefix)
GetCodes(categories, prefix) ==
  /\ pt.built
  /\ LET r == get_codes(pt, registry, categories, prefix)
     IN last' = [op |-> "get_codes", args |-> <<categories, prefix>>,
                 raised |-> r.raised, returned |-> r.returned]
  /\ UNCHANGED <<registry, pt>>

\* pt.get_codes_by_measurement(measurement, prefix)
GetCodesByMeasurement(measurement, prefix) ==
  /\ pt.built
  /\ LET r == get_codes_by_measurement(pt, registry, measurement, prefix)
     IN last' = [op |-> "get_codes_by_measurement", args |-> <<measurement, prefix>>,
                 raised |-> r.raised, returned |-> r.returned]
  /\ UNCHANGED <<registry, pt>>

\* str(pt)
Str ==
  /\ pt.built
  /\ LET r == summary(pt, registry)
     IN last' = [op |-> "__str__", args |-> <<>>,
                 raised |-> r.raised, returned |-> r.returned]
  /\ UNCHANGED <<registry, pt>>

Register ==
  \E code \in CodeArgs, groups \in GroupsArgs, measured_in \in UnitArgs :
    NewProduksjonskode(code, groups, measured_in)

Query ==
  \/ \E categories \in CategoriesArgs, prefix \in PrefixArgs :
       GetCodes(categories, prefix)
  \/ \E measurement \in MeasurementArgs, prefix \in PrefixArgs :
       GetCodesByMeasurement(measurement, prefix)
  \/ Str

Next == Register \/ NewProduksjonstilskudd \/ Query

Spec == Init /\ [][Next]_vars

\* Construction with every shape of argument, valid and invalid.
RegisterAny ==
  \E code \in AllCodeArgs, groups \in AllGroupsArgs, measured_in \in AllUnitArgs :
    NewProduksjonskode(code, groups, measured_in)

NextValidation == RegisterAny \/ NewProduksjonstilskudd \/ Str

SpecValidation == Init /\ [][NextValidation]_vars

(***************************************************************************)
(* Two threads: one constructs a catalog, statement by statement, while    *)
(* the other registers codes.  While __init__ runs, pt holds the object    *)
(* under construction: its codes, the local set categories and the         *)
(* position of the list iterator of the for loop.                          *)
(***************************************************************************)

\* Lines 27 and 29: self.codes is bound, categories is the empty set.
init_begin ==
  [built |-> FALSE, pc |-> "for", codes |-> RegistryRef, next |-> 1,
   categories |-> {}]

\* The for loop leaving one entry earlier than the end of the list.
init_for_skips_last(self, reg) ==
  LET codes == Deref(self.codes, reg)
  IN IF self.next < Len(codes)
     THEN [self EXCEPT !.categories = @ \cup Range(codes[self.next].groups.items),
                       !.next = @ + 1]
     ELSE [self EXCEPT !.pc = "sorted"]

\* Lines 30-32, one iteration: the list iterator compares its position with
\* the length the list has now, so it also yields codes appended meanwhile;
\* once it is exhausted the loop is left.
init_for(self, reg) ==
  LET codes == Deref(self.codes, reg)
  IN IF self.next <= Len(codes)
     THEN [self EXCEPT !.categories = @ \cup Range(codes[self.next].groups.items),
                       !.next = @ + 1]
     ELSE [self EXCEPT !.pc = "sorted"]

\* Line 33: self.categories = list(sorted(categories)); __init__ returns.
init_sorted(self) ==
  [built |-> TRUE, codes |-> self.codes,
   categories |-> PyList(sorted(self.categories))]

Constructing == pt # NoCatalog /\ ~pt.built

BeginInit ==
  /\ ~Constructing
  /\ pt' = init_begin
  /\ UNCHANGED <<registry, last>>

ForStep ==
  /\ Constructing
  /\ pt.pc = "for"
  /\ pt' = init_for(pt, registry)
  /\ UNCHANGED <<registry, last>>

SortedStep ==
  /\ Constructing
  /\ pt.pc = "sorted"
  /\ pt' = init_sorted(pt)
  /\ last' = [op |-> "Produksjonstilskudd", args |-> <<>>,
              raised |-> NoError, returned |-> pt']
  /\ UNCHANGED registry

NextThreads == Register \/ BeginInit \/ ForStep \/ SortedStep

SpecThreads == Init /\ [][NextThreads]_vars

(***************************************************************************)
(* Properties                                                              *)
(***************************************************************************)

\* The list a catalog's codes attribute denotes in the current state.
CatalogCodes == Deref(pt.codes, registry)

LastIs(op) == last.op = op
Succeeded == last.raised = NoError

\* C1: a catalog is a snapshot of the registry taken at construction: a
\* successful Produksjonskode construction changes neither the codes list,
\* nor any get_codes or get_codes_by_measurement result, nor the summary of
\* a catalog that was built before it.
C1_CatalogIsSnapshot ==
  [][(pt.built /\ last'.op = "Produksjonskode" /\ last'.raised = NoError)
       => /\ CatalogCodes' = CatalogCodes
          /\ summary(pt, registry)' = summary(pt, registry)
          /\ \A c \in CategoriesArgs, p \in PrefixArgs :
               get_codes(pt, registry, c, p)' = get_codes(pt, registry, c, p)
          /\ \A m \in MeasurementArgs, p \in PrefixArgs :
               get_codes_by_measurement(pt, registry, m, p)'
                 = get_codes_by_measurement(pt, registry, m, p)]_vars

\* C2: get_codes() with no selector returns exactly the codes of the
\* catalog: every entry of the catalog's codes appears in the result, and
\* no code string appears twice.
C2_GetCodesReturnsAll ==
  (LastIs("get_codes") /\ last.args[1] = PyNone /\ last.args[2] = PyBool(FALSE))
    => /\ Succeeded
       /\ \A i \in DOMAIN CatalogCodes :
            \E j \in DOMAIN last.returned.items :
              last.returned.items[j] = CatalogCodes[i].code
       /\ \A j, k \in DOMAIN last.returned.items :
            last.returned.items[j] = last.returned.items[k] => j = k

\* A str of exactly three decimal digits.
ThreeDigits(c) ==
  /\ c.type = "str"
  /\ Len(c.chars) = 3
  /\ Range(c.chars) \subseteq UnicodeDecimalDigits

\* A groups argument that is a list of str only.
ListOfStr(g) ==
  g.type = "list" /\ \A i \in DOMAIN g.items : g.items[i].type = "str"

\* C3: with a valid groups list and a valid measured_in, construction with
\* the code string c succeeds and stores code = c exactly when c is three
\* digits; for every other string it raises the invalid-code ValueError
\* that names c.
C3_CodeFormat ==
  (/\ LastIs("Produksjonskode")
   /\ last.args[1].type = "str"
   /\ ListOfStr(last.args[2])
   /\ last.args[3] \in VALID_MEASUREMENT_UNITS)
    => IF ThreeDigits(last.args[1])
       THEN /\ Succeeded
            /\ last.returned.code = last.args[1]
            /\ registry[Len(registry)].code = last.args[1]
       ELSE last.raised
              = [exc |-> "ValueError", msg |-> "Must be exactly 3 digits",
                 value |-> last.args[1]]

C3_Witness ==
  /\ LastIs("Produksjonskode")
  /\ last.args = <<c1234, PyList(<<tag_a, tag_B>>), kilo>>
  /\ last.raised.msg = "Must be exactly 3 digits"
  /\ Len(registry) = 1
  /\ registry[1].code = c003_arabic

\* C4: a construction that fails a validation leaves the registry as it
\* was (nothing added, removed or reordered), and with it the catalog and
\* what the catalog shows.
C4_FailedConstructionKeepsRegistry ==
  [][(last'.op = "Produksjonskode" /\ last'.raised # NoError)
       => /\ registry' = registry
          /\ pt' = pt
          /\ pt.built => /\ CatalogCodes' = CatalogCodes
                         /\ summary(pt, registry)' = summary(pt, registry)]_vars

C4_Witness ==
  /\ LastIs("Produksjonskode")
  /\ last.raised.msg = "Invalid measurement unit"
  /\ Len(registry) = 1
  /\ pt.built

\* C5: a successful construction appends the new code at the end of the
\* registry exactly once and leaves the earlier entries and their order
\* unchanged; a catalog constructed afterwards has codes equal to the
\* registry contents in registration order.
C5_SuccessAppendsOnce ==
  [][/\ (last'.op = "Produksjonskode" /\ last'.raised = NoError)
          => /\ Len(registry') = Len(registry) + 1
             /\ SubSeq(registry', 1, Len(registry)) = registry
             /\ registry'[Len(registry')] = last'.returned
             /\ last'.returned.code = last'.args[1]
     /\ last'.op = "Produksjonstilskudd"
          => /\ registry' = registry
             /\ Deref(pt'.codes, registry') = registry]_vars

C5_Witness ==
  /\ LastIs("Produksjonstilskudd")
  /\ Len(CatalogCodes) = 2
  /\ CatalogCodes[1].code = c101
  /\ CatalogCodes[2].code = c001

\* The checks of is_valid, on the arguments of a call: a falsy groups
\* argument has been replaced by the empty list before validation.
CodeCheckFails(code) == ~ThreeDigits(code)
GroupsTypeCheckFails(groups) == Truthy(groups) /\ groups.type # "list"
GroupsValueCheckFails(groups) ==
  groups.type = "list" /\ \E i \in DOMAIN groups.items : groups.items[i].type # "str"
UnitCheckFails(measured_in) == measured_in \notin VALID_MEASUREMENT_UNITS

C7_GroupsMustBeList ==
  (/\ LastIs("Produksjonskode")
   /\ ThreeDigits(last.args[1])
   /\ last.args[3] \in VALID_MEASUREMENT_UNITS)
    => /\ last.args[2].type # "list"
            => (last.raised.exc = "TypeError"
                  /\ last.raised.msg = "groups must be a list")
       /\ (last.args[2].type = "list" /\ ~ListOfStr(last.args[2]))
            => (last.raised.exc = "ValueError"
                  /\ last.raised.msg = "All values in groups must be strings"
                  /\ \A i \in DOMAIN last.args[2].items :
                       last.args[2].items[i].type # "str"
                         => \E j \in DOMAIN last.raised.value.items :
                              last.raised.value.items[j] = last.args[2].items[i])

\* The code strings of the entries that have a group among names, in the
\* order of the entries.
RECURSIVE FilterByGroups(_, _)
FilterByGroups(entries, names) ==
  IF entries = <<>> THEN <<>>
  ELSE (IF Range(Head(entries).groups.items) \cap names # {}
        THEN <<Head(entries).code>> ELSE <<>>)
       \o FilterByGroups(Tail(entries), names)

Reverse(s) == [i \in DOMAIN s |-> s[Len(s) + 1 - i]]

\* C8: for a selector given as a list of names, get_codes returns the code
\* strings of exactly the catalog entries with at least one group in the
\* selector, one element per matching entry, in the order of the entries;
\* the order of the names in the selector does not matter.
C8_ListSelectorFilters ==
  (/\ LastIs("get_codes")
   /\ last.args[1].type = "list"
   /\ last.args[2] = PyBool(FALSE))
    => /\ Succeeded
       /\ last.returned
            = PyList(FilterByGroups(CatalogCodes, Range(last.args[1].items)))
       /\ get_codes(pt, registry, PyList(Reverse(last.args[1].items)), last.args[2])
            = [raised |-> last.raised, returned |-> last.returned]

C8_Witness ==
  /\ LastIs("get_codes")
  /\ last.args = <<PyList(<<tag_b, tag_a>>), PyBool(FALSE)>>
  /\ Len(CatalogCodes) = 2
  /\ CatalogCodes[1].groups = PyList(<<>>)
  /\ last.returned = PyList(<<CatalogCodes[2].code>>)

\* C9: get_codes(X) with the name X given as a string returns what
\* get_codes([X]) returns, for either value of prefix.
C9_StringSelectorIsSingleton ==
  (LastIs("get_codes") /\ last.args[1].type = "str")
    => [raised |-> last.raised, returned |-> last.returned]
         = get_codes(pt, registry, PyList(<<last.args[1]>>), last.args[2])

C9_Witness ==
  /\ LastIs("get_codes")
  /\ last.args = <<tag_empty, PyBool(TRUE)>>
  /\ Len(last.returned.items) = 1
  /\ Len(CatalogCodes) = 2

\* The same query as the last one, with prefix=False.
LastUnprefixed ==
  IF LastIs("get_codes")
  THEN get_codes(pt, registry, last.args[1], PyBool(FALSE))
  ELSE get_codes_by_measurement(pt, registry, last.args[1], PyBool(FALSE))

\* C10: the result of get_codes and of get_codes_by_measurement with
\* prefix=True has the length and order of the result with prefix=False,
\* and its i-th element is 'pk_' followed by the i-th unprefixed code.
C10_PrefixElementwise ==
  (/\ last.op \in {"get_codes", "get_codes_by_measurement"}
   /\ last.args[2] = PyBool(TRUE)
   /\ Succeeded)
    => /\ LastUnprefixed.raised = NoError
       /\ Len(last.returned.items) = Len(LastUnprefixed.returned.items)
       /\ \A i \in DOMAIN last.returned.items :
            /\ last.returned.items[i].type = "str"
            /\ last.returned.items[i].chars
                 = <<"p", "k", "_">> \o LastUnprefixed.returned.items[i].chars

C10_Witness ==
  /\ LastIs("get_codes_by_measurement")
  /\ last.args = <<kilo, PyBool(TRUE)>>
  /\ last.returned
       = PyList(<<PyStr(<<"p", "k", "_", "1", "0", "1">>),
                  PyStr(<<"p", "k", "_", "0", "0", "1">>)>>)

\* The code strings of the entries measured in unit, in the order of the
\* entries.
RECURSIVE FilterByUnit(_, _)
FilterByUnit(entries, unit) ==
  IF entries = <<>> THEN <<>>
  ELSE (IF Head(entries).measured_in = unit
        THEN <<Head(entries).code>> ELSE <<>>)
       \o FilterByUnit(Tail(entries), unit)

\* The number of occurrences of x in the sequence s.
Count(x, s) == Cardinality({i \in DOMAIN s : s[i] = x})

\* What get_codes_by_measurement(unit) returns for the catalog now.
ByUnit(unit) ==
  get_codes_by_measurement(pt, registry, unit, PyBool(FALSE)).returned.items

\* C11: get_codes_by_measurement(unit) returns, in registration order,
\* exactly the codes whose measured_in equals unit, and the results for the
\* four units of the vocabulary partition the catalog: together they hold
\* every entry of the catalog exactly once.
C11_MeasurementPartition ==
  (/\ LastIs("get_codes_by_measurement")
   /\ last.args[1] \in VALID_MEASUREMENT_UNITS
   /\ last.args[2] = PyBool(FALSE))
    => /\ Succeeded
       /\ last.returned = PyList(FilterByUnit(CatalogCodes, last.args[1]))
       /\ \A i \in DOMAIN CatalogCodes :
            Count(CatalogCodes[i].code, ByUnit(antall))
              + Count(CatalogCodes[i].code, ByUnit(dekar))
              + Count(CatalogCodes[i].code, ByUnit(stykk))
              + Count(CatalogCodes[i].code, ByUnit(kilo))
              = Count(CatalogCodes[i].code,
                      [j \in DOMAIN CatalogCodes |-> CatalogCodes[j].code])
       /\ Len(ByUnit(antall)) + Len(ByUnit(dekar)) + Len(ByUnit(stykk))
            + Len(ByUnit(kilo)) = Len(CatalogCodes)

C11_Witness ==
  /\ LastIs("get_codes_by_measurement")
  /\ last.args = <<kilo, PyBool(FALSE)>>
  /\ Len(CatalogCodes) = 2
  /\ CatalogCodes[1].measured_in = antall
  /\ last.returned = PyList(<<CatalogCodes[2].code>>)

\* C12: get_codes_by_measurement raises the invalid-measurement-unit
\* ValueError for every unit value outside the vocabulary and returns
\* normally for every unit inside it: the unit alone decides, whatever the
\* catalog holds.
C12_UnitDecidesOutcome ==
  (LastIs("get_codes_by_measurement") /\ last.args[2].type = "bool")
    => IF last.args[1] \in VALID_MEASUREMENT_UNITS
       THEN Succeeded /\ last.returned.type = "list"
       ELSE last.raised
              = [exc |-> "ValueError", msg |-> "Invalid measurement unit",
                 value |-> last.args[1]]

\* C13: get_codes raises a TypeError and returns nothing whenever prefix is
\* not a bool and whenever the selector is neither None, a str nor a list;
\* for every other combination of arguments it does not raise.
C13_GetCodesTypeErrors ==
  LastIs("get_codes")
    => IF \/ last.args[2].type # "bool"
          \/ last.args[1].type \notin {"NoneType", "str", "list"}
       THEN last.raised.exc = "TypeError" /\ last.returned = PyNone
       ELSE Succeeded /\ last.returned.type = "list"

C13_Witness ==
  /\ LastIs("get_codes")
  /\ last.args = <<PyList(<<tag_a>>), PyStr(<<"y", "e", "s">>)>>
  /\ last.raised.msg = "prefix should be either True or False"
  /\ Len(CatalogCodes) = 2
  /\ get_codes(pt, registry, last.args[1], PyBool(FALSE)).returned.items # <<>>

\* The group tags of the codes the catalog holds now.
CatalogTags ==
  UNION {Range(CatalogCodes[i].groups.items) : i \in DOMAIN CatalogCodes}

\* The names of a str or list selector, and those among them that are a
\* group of some code of the catalog.
SelectorNames(categories) ==
  IF categories.type = "str" THEN <<categories>> ELSE categories.items

KnownNames(categories) ==
  SelectSeq(SelectorNames(categories), LAMBDA n : n \in CatalogTags)

\* C14: a selector name that is no group of any code of the catalog never
\* raises and contributes no codes: a selector of unknown names only gives
\* the empty list, and a selector mixing known and unknown names gives the
\* result of its known names alone.
C14_UnknownNamesAreLenient ==
  (/\ LastIs("get_codes")
   /\ last.args[1].type \in {"str", "list"}
   /\ last.args[2].type = "bool")
    => /\ Succeeded
       /\ [raised |-> last.raised, returned |-> last.returned]
            = get_codes(pt, registry, PyList(KnownNames(last.args[1])), last.args[2])
       /\ KnownNames(last.args[1]) = <<>> => last.returned = PyList(<<>>)

C14_Witness ==
  /\ LastIs("get_codes")
  /\ last.args = <<PyList(<<tag_b, tag_a>>), PyBool(FALSE)>>
  /\ tag_b \notin CatalogTags
  /\ Len(last.returned.items) = 2

\* C15: the categories of a catalog that has just been constructed are the
\* distinct group tags of the codes registered at that moment (the empty
\* tag like any other), none repeated, in ascending order; there are none
\* when no code is registered.
C15_CategoriesSortedDistinct ==
  LastIs("Produksjonstilskudd")
    => /\ pt.categories.type = "list"
       /\ Range(pt.categories.items)
            = UNION {Range(registry[i].groups.items) : i \in DOMAIN registry}
       /\ \A i, j \in DOMAIN pt.categories.items :
            i < j => StrLess(pt.categories.items[i].chars,
                             pt.categories.items[j].chars)
       /\ registry = <<>> => pt.categories.items = <<>>

C15_Witness ==
  /\ LastIs("Produksjonstilskudd")
  /\ Len(registry) = 2
  /\ registry[1].groups = PyList(<<tag_empty, tag_a>>)
  /\ registry[2].groups = PyList(<<tag_empty, tag_a>>)
  /\ pt.categories = PyList(<<tag_empty, tag_a>>)

\* C16: every query is a pure read: get_codes, get_codes_by_measurement and
\* the summary, whether they return or raise, leave the registry with every
\* field of every code, and the catalog's codes and categories, unchanged.
C16_QueriesArePureReads ==
  [][last'.op \in {"get_codes", "get_codes_by_measurement", "__str__"}
       => /\ registry' = registry
          /\ pt' = pt
          /\ CatalogCodes' = CatalogCodes]_vars

C16_Witness ==
  /\ LastIs("get_codes")
  /\ last.args = <<tag_a, PyBool(FALSE)>>
  /\ Len(last.returned.items) = 1
  /\ pt.categories = PyList(<<tag_empty, tag_a>>)
  /\ Len(registry) = 2

\* C17: the code string is a primary key: no two entries of the registry,
\* and so of a catalog's codes, have the same code string.
C17_CodeStringsUnique ==
  \A i, j \in DOMAIN registry : registry[i].code = registry[j].code => i = j

\* The catalog holds a code one of whose group tags is missing from its
\* categories.
Torn ==
  /\ pt.built
  /\ \E i \in DOMAIN CatalogCodes :
       \E g \in DOMAIN CatalogCodes[i].groups.items :
         ~PyIn(CatalogCodes[i].groups.items[g], pt.categories)

\* C18: a catalog constructed while another thread registers codes can be
\* torn: the constructor returns a catalog whose codes hold a code with a
\* tag missing from categories (the witness).  This happens only through a
\* registration that falls after the end of the constructor's loop: the
\* loop has collected the tags of every code it has passed, it is left only
\* at the end of the list, the catalog is torn on return only if the
\* registry has grown since, and an intact catalog is torn only by a
\* registration.
C18_TornSnapshot ==
  [][/\ Constructing'
          => \A i \in 1..(pt'.next - 1) :
               Range(registry'[i].groups.items) \subseteq pt'.categories
     /\ (Constructing /\ pt.pc = "for" /\ pt'.pc = "sorted")
          => pt.next = Len(registry) + 1
     /\ (Constructing /\ pt'.built /\ Torn')
          => (pt.pc = "sorted" /\ Len(registry) >= pt.next)
     /\ (pt.built /\ ~Torn /\ Torn')
          => (Len(registry') = Len(registry) + 1 /\ pt' = pt)]_vars

C18_Witness ==
  /\ LastIs("Produksjonstilskudd")
  /\ Torn
  /\ pt.categories = PyList(<<>>)
  /\ Len(CatalogCodes) = 2
  /\ CatalogCodes[1].groups = PyList(<<>>)
  /\ CatalogCodes[2].groups = PyList(<<tag_empty, tag_a>>)

\* C19: in single-threaded use, at every moment after the construction of
\* a catalog, every group tag of every code in the catalog's codes is one
\* of the catalog's categories, so that get_codes() ranges over all the
\* codes the catalog holds.
C19_EveryTagIsACategory ==
  pt.built
    => /\ \A i \in DOMAIN CatalogCodes :
            Range(CatalogCodes[i].groups.items) \subseteq Range(pt.categories.items)
       /\ get_codes(pt, registry, PyNone, PyBool(FALSE))
            = get_codes(pt, registry, PyList(sorted(CatalogTags)), PyBool(FALSE))

\* C20: every entry of the registry satisfies all the validation rules, in
\* every state: its code is three digits, its groups is a list of strings
\* and its measured_in is a unit of the vocabulary.
C20_RegistryEntriesValid ==
  \A i \in DOMAIN registry :
    /\ ThreeDigits(registry[i].code)
    /\ ListOfStr(registry[i].groups)
    /\ registry[i].measured_in \in VALID_MEASUREMENT_UNITS

C20_Witness ==
  /\ Len(registry) = 2
  /\ registry[1].code = c003_arabic
  /\ registry[2].groups = PyList(<<>>)
  /\ LastIs("Produksjonskode")
  /\ last.args = <<c001, PyList(<<tag_a, PyInt(1), PyNone>>), liter>>
  /\ last.raised.msg = "All values in groups must be strings"

\* The outcome of the last query, had it been made on a catalog built from
\* an empty registry.
LastOnEmptyCatalog ==
  IF LastIs("get_codes")
  THEN get_codes(Produksjonstilskudd_init(<<>>), <<>>, last.args[1], last.args[2])
  ELSE get_codes_by_measurement(Produksjonstilskudd_init(<<>>), <<>>,
                                last.args[1], last.args[2])

\* C21: when both arguments are invalid, get_codes raises the prefix
\* TypeError and get_codes_by_measurement raises the invalid-measurement-
\* unit ValueError; every argument check precedes the reading of the codes,
\* so a call that fails fails identically on an empty catalog.
C21_ArgumentErrorPrecedence ==
  /\ (/\ LastIs("get_codes")
      /\ last.args[2].type # "bool"
      /\ last.args[1].type \notin {"NoneType", "str", "list"})
       => (last.raised.exc = "TypeError"
             /\ last.raised.msg = "prefix should be either True or False")
  /\ (/\ LastIs("get_codes_by_measurement")
      /\ last.args[2].type # "bool"
      /\ last.args[1] \notin VALID_MEASUREMENT_UNITS)
       => last.raised
            = [exc |-> "ValueError", msg |-> "Invalid measurement unit",
               value |-> last.args[1]]
  /\ (/\ last.op \in {"get_codes", "get_codes_by_measurement"}
      /\ ~Succeeded)
       => LastOnEmptyCatalog = [raised |-> last.raised, returned |-> last.returned]

====
